---- MODULE Spec2Model ----
(***************************************************************************)
(* Model of py/stabilizer/set_pid.py: one invocation of the command-line   *)
(* tool that resolves a Stabilizer device prefix (optionally by discovery) *)
(* and writes one PID channel's parameter record to it.                    *)
(*                                                                         *)
(* The MQTT broker, miniconf.discover, miniconf.Miniconf and the device    *)
(* are the environment: their answers are nondeterministic choices.        *)
(* Floats are modelled by integers (gains, and voltages in whole volts).   *)
(***************************************************************************)
EXTENDS Integers, Sequences, FiniteSets, TLC

\* ------------------------------------------------------------------ bounds

\* Number of segments of a device prefix (a topic path).
PathLen == 2

\* Most devices that answer one discovery query.
MaxDevices == 2

\* ------------------------------------------------------------ value domains

Segments == {"a", "b"}
Wildcard == "+"

\* Concrete device prefixes, and the prefixes a caller can give to --prefix.
Addresses == [1..PathLen -> Segments]
Patterns == [1..PathLen -> Segments \cup {Wildcard}]

\* --channel: choices=[0, 1]
Channels == {0, 1}

\* Values of --p, --i, --d and of the five voltage options.
Gains == {0, 2}
Volts == {-10, 3}

\* The absent prefix / absent list.
None == <<>>

\* ------------------------------------------------------- pure definitions

\* A prefix without a wildcard segment.
IsConcrete(p) == /\ Len(p) = PathLen
                 /\ \A k \in 1..Len(p) : p[k] # Wildcard

\* MQTT topic filter match with the single-level wildcard.
Matches(pattern, addr) ==
    /\ Len(pattern) = Len(addr)
    /\ \A k \in 1..Len(pattern) : pattern[k] = Wildcard \/ pattern[k] = addr[k]

\* The set of the elements of a sequence.
Range(s) == {s[k] : k \in 1..Len(s)}

\* What miniconf.discover may return for a prefix filter: the prefixes of the
\* devices that answered, each once, in the order the answers arrived.
DiscoverResponses(pattern) ==
    {s \in UNION {[1..n -> Addresses] : n \in 0..MaxDevices} :
        /\ \A k \in 1..Len(s) : Matches(pattern, s[k])
        /\ \A j, k \in 1..Len(s) : j # k => s[j] # s[k]}

\* Full-scale voltage and machine-unit range of the conversion.
FullScaleVoltage == 10
MachineRange == 32768

\* n / d rounded to the nearest integer, ties to the even one (Python round).
RoundDiv(n, d) ==
    LET q == n \div d
        r == n % d
    IN  IF 2 * r < d THEN q
        ELSE IF 2 * r > d THEN q + 1
        ELSE IF q % 2 = 0 THEN q ELSE q + 1

\* stabilizer.voltage_to_machine_units
voltage_to_machine_units(v) == RoundDiv(v * MachineRange, FullScaleVoltage)

\* ------------------------------------------------------------------ state

VARIABLES
    args,           \* the parsed command line (argparse namespace)
    pc,             \* the step the invocation is at
    discoverCalls,  \* number of miniconf.discover calls made
    matched,        \* what miniconf.discover returned (kept for reference)
    devices,        \* the local list `devices`
    prefix,         \* the local `prefix`, None until bound
    createCalls,    \* number of Miniconf.create calls made
    interface,      \* the Miniconf session of configure()
    value,          \* the record built for interface.set, None until built
    writes,         \* the set requests issued, in order
    error,          \* the exception that ended the invocation, if any
    device          \* the devices' configuration trees

vars == <<args, pc, discoverCalls, matched, devices, prefix, createCalls,
          interface, value, writes, error, device>>

\* The command lines the parser accepts.
Args == [no_discover : BOOLEAN, prefix : Patterns, channel : Channels,
         p : Gains, i : Gains, d : Gains,
         x_offset : Volts, y_offset : Volts, y_min : Volts, y_max : Volts,
         i_limit : Volts]

NoSession == [state |-> "none", prefix |-> None]
NoError == [kind |-> "none", devices |-> None]

\* The configuration paths a device has, and a path never written.
DevicePaths == [node : {"pid_ch"}, channel : Channels]

Terminal == {"Acked", "Failed"}

\* --------------------------------------------------- the code's expressions

\* Variant: the --no-discover flag is ignored.
Discovers_always(a) == TRUE

\* `if args.no_discover: ... else:` -- TRUE when the else branch is taken.
Discovers(a) == ~a.no_discover

\* Variant: the emptiness test never succeeds.
NoPrefixes_never(devs) == Len(devs) < 0

\* `if not devices:`
NoPrefixes(devs) == Len(devs) = 0

\* Variant: off by one, two devices pass.
MultiplePrefixes_offbyone(devs) == Len(devs) > 2

\* `if len(devices) > 1:`
MultiplePrefixes(devs) == Len(devs) > 1

\* raise ValueError("No prefixes discovered.")
NoPrefixesError(devs) == [kind |-> "NoDeviceFound", devices |-> None]

\* raise ValueError(f"Multiple prefixes discovered ({devices})." ...)
MultiplePrefixesError(devs) == [kind |-> "AmbiguousDeviceMatch", devices |-> devs]

\* Variant: the caller's pattern is used in place of the discovered prefix.
Pop_pattern(devs) == args.prefix

\* devices.pop(): the last element
Pop(devs) == devs[Len(devs)]

\* the list after devices.pop()
Popped(devs) == SubSeq(devs, 1, Len(devs) - 1)

\* Variant: the session is opened with args.prefix, not with `prefix`.
CreateInterface_argsprefix(pfx) == [state |-> "open", prefix |-> args.prefix]

\* miniconf.Miniconf.create(prefix, args.broker)
CreateInterface(pfx) == [state |-> "open", prefix |-> pfx]

\* Variant: the path of the other channel.
ConfigPath_other(ch) == [node |-> "pid_ch", channel |-> 1 - ch]

\* f"/pid_ch/{args.channel}"
ConfigPath(ch) == [node |-> "pid_ch", channel |-> ch]

\* Variant: y_min and y_max are taken from each other's option.
SetValue_swapped(a) ==
    [p        |-> a.p,
     i        |-> a.i,
     d        |-> a.d,
     x_offset |-> voltage_to_machine_units(a.x_offset),
     y_offset |-> voltage_to_machine_units(a.y_offset),
     y_min    |-> voltage_to_machine_units(a.y_max),
     y_max    |-> voltage_to_machine_units(a.y_min),
     i_limit  |-> voltage_to_machine_units(a.i_limit)]

\* The dict literal given to interface.set.
SetValue(a) ==
    [p        |-> a.p,
     i        |-> a.i,
     d        |-> a.d,
     x_offset |-> voltage_to_machine_units(a.x_offset),
     y_offset |-> voltage_to_machine_units(a.y_offset),
     y_min    |-> voltage_to_machine_units(a.y_min),
     y_max    |-> voltage_to_machine_units(a.y_max),
     i_limit  |-> voltage_to_machine_units(a.i_limit)]

\* The request interface.set publishes: <prefix>/settings<path> with the value.
SetRequest(iface, a, val) ==
    [prefix |-> iface.prefix, path |-> ConfigPath(a.channel), value |-> val]

\* Variant: the set call appears twice.
Issued_twice(ws, w) == Append(Append(ws, w), w)

\* The requests issued once `await interface.set(...)` has been called.
Issued(ws, w) == Append(ws, w)

\* Variant: a failed set is tried again.
AfterSetFailure_retry == "Converting"

\* Where an exception out of interface.set leaves the invocation: it
\* propagates out of configure() and asyncio.run; nothing catches it.
AfterSetFailure == "Failed"

\* -------------------------------------------------------------------- Init

Init ==
    /\ args \in Args
    /\ pc = "Idle"
    /\ discoverCalls = 0
    /\ matched = None
    /\ devices = None
    /\ prefix = None
    /\ createCalls = 0
    /\ interface = NoSession
    /\ value = None
    /\ writes = <<>>
    /\ error = NoError
    /\ device = [a \in Addresses |-> [path \in DevicePaths |-> None]]

\* ----------------------------------------------------------------- actions

\* `if args.no_discover: prefix = args.prefix`
SkipDiscover ==
    /\ pc = "Idle"
    /\ ~Discovers(args)
    /\ prefix' = args.prefix
    /\ pc' = "Resolved"
    /\ UNCHANGED <<args, discoverCalls, matched, devices, createCalls,
                   interface, value, writes, error, device>>

\* `asyncio.run(miniconf.discover(args.broker, args.prefix))` is entered.
StartDiscover ==
    /\ pc = "Idle"
    /\ Discovers(args)
    /\ discoverCalls' = discoverCalls + 1
    /\ pc' = "Resolving"
    /\ UNCHANGED <<args, matched, devices, prefix, createCalls, interface,
                   value, writes, error, device>>

\* discover returns, and the checks on `devices` up to `prefix = devices.pop()`.
DiscoverReturn ==
    /\ pc = "Resolving"
    /\ \E devs \in DiscoverResponses(args.prefix) :
        /\ matched' = devs
        /\ IF NoPrefixes(devs)
           THEN /\ error' = NoPrefixesError(devs)
                /\ pc' = "Failed"
                /\ devices' = devs
                /\ UNCHANGED prefix
           ELSE IF MultiplePrefixes(devs)
           THEN /\ error' = MultiplePrefixesError(devs)
                /\ pc' = "Failed"
                /\ devices' = devs
                /\ UNCHANGED prefix
           ELSE IF devs = <<>>
           THEN \* pop from an empty list
                /\ error' = [kind |-> "IndexError", devices |-> None]
                /\ pc' = "Failed"
                /\ devices' = devs
                /\ UNCHANGED prefix
           ELSE /\ prefix' = Pop(devs)
                /\ devices' = Popped(devs)
                /\ pc' = "Resolved"
                /\ UNCHANGED error
    /\ UNCHANGED <<args, discoverCalls, createCalls, interface, value,
                   writes, device>>

\* `interface = await miniconf.Miniconf.create(prefix, args.broker)` succeeds.
CreateOk ==
    /\ pc = "Resolved"
    /\ createCalls' = createCalls + 1
    /\ interface' = CreateInterface(prefix)
    /\ pc' = "SessionOpen"
    /\ UNCHANGED <<args, discoverCalls, matched, devices, prefix, value,
                   writes, error, device>>

\* Miniconf.create raises (broker unreachable).
CreateFail ==
    /\ pc = "Resolved"
    /\ createCalls' = createCalls + 1
    /\ error' = [kind |-> "ConnectionFailed", devices |-> None]
    /\ pc' = "Failed"
    /\ UNCHANGED <<args, discoverCalls, matched, devices, prefix, interface,
                   value, writes, device>>

\* The arguments of interface.set are evaluated: the dict is built.
Convert ==
    /\ pc = "SessionOpen"
    /\ value' = <<SetValue(args)>>
    /\ pc' = "Converting"
    /\ UNCHANGED <<args, discoverCalls, matched, devices, prefix, createCalls,
                   interface, writes, error, device>>

\* interface.set is called: the request is published.
IssueSet ==
    /\ pc = "Converting"
    /\ writes' = Issued(writes, SetRequest(interface, args, value[1]))
    /\ pc' = "Writing"
    /\ UNCHANGED <<args, discoverCalls, matched, devices, prefix, createCalls,
                   interface, value, error, device>>

\* The device a request reaches: the one whose prefix is the request's.
Applied(w) ==
    [device EXCEPT ![w.prefix] = [@ EXCEPT ![w.path] = <<w.value>>]]

\* The device applies the value and acknowledges; `await interface.set` returns.
SetAck ==
    /\ pc = "Writing"
    /\ LET w == writes[Len(writes)] IN
        /\ w.prefix \in Addresses
        /\ device' = Applied(w)
    /\ pc' = "Acked"
    /\ UNCHANGED <<args, discoverCalls, matched, devices, prefix, createCalls,
                   interface, value, writes, error>>

\* The device answers with an error code; interface.set raises.
SetRejected ==
    /\ pc = "Writing"
    /\ error' = [kind |-> "WriteRejected", devices |-> None]
    /\ pc' = AfterSetFailure
    /\ UNCHANGED <<args, discoverCalls, matched, devices, prefix, createCalls,
                   interface, value, writes, device>>

\* No answer arrives in time; interface.set raises. The device may or may
\* not have applied the value.
SetTimeout ==
    /\ pc = "Writing"
    /\ LET w == writes[Len(writes)] IN
        \/ UNCHANGED device
        \/ /\ w.prefix \in Addresses
           /\ device' = Applied(w)
    /\ error' = [kind |-> "Timeout", devices |-> None]
    /\ pc' = AfterSetFailure
    /\ UNCHANGED <<args, discoverCalls, matched, devices, prefix, createCalls,
                   interface, value, writes>>

Next ==
    \/ SkipDiscover
    \/ StartDiscover
    \/ DiscoverReturn
    \/ CreateOk
    \/ CreateFail
    \/ Convert
    \/ IssueSet
    \/ SetAck
    \/ SetRejected
    \/ SetTimeout

Spec == Init /\ [][Next]_vars

\* ------------------------------------------------------------ properties

\* The discovery call of this invocation has returned.
DiscoveryDone == ~args.no_discover /\ pc \notin {"Idle", "Resolving"}

SessionOpened == interface.state = "open"

\* `code` is voltage * MachineRange / FullScaleVoltage rounded to the nearest
\* integer: it is off the exact quotient by at most one half.
Nearest(code, voltage) ==
    LET diff == code * FullScaleVoltage - voltage * MachineRange
    IN  /\ 2 * diff <= FullScaleVoltage
        /\ 2 * diff >= -FullScaleVoltage

\* C1: when discovery is enabled and returns no device, the invocation fails
\* with NoDeviceFound, and no session is opened and no write is issued.
C1_NoDeviceFound ==
    (DiscoveryDone /\ Len(matched) = 0) =>
        /\ pc = "Failed"
        /\ error.kind = "NoDeviceFound"
        /\ createCalls = 0
        /\ ~SessionOpened
        /\ writes = <<>>

C1_Witness ==
    /\ DiscoveryDone
    /\ Len(matched) = 0
    /\ error.kind = "NoDeviceFound"
    /\ \E k \in 1..PathLen : args.prefix[k] = Wildcard

\* C2: when discovery is enabled and returns two or more devices, the
\* invocation fails with AmbiguousDeviceMatch carrying exactly the set of the
\* matched prefixes, and no session is opened and no write is issued.
C2_AmbiguousDeviceMatch ==
    (DiscoveryDone /\ Len(matched) >= 2) =>
        /\ pc = "Failed"
        /\ error.kind = "AmbiguousDeviceMatch"
        /\ Range(error.devices) = Range(matched)
        /\ createCalls = 0
        /\ ~SessionOpened
        /\ writes = <<>>

C2_Witness ==
    /\ DiscoveryDone
    /\ Len(matched) >= 2
    /\ error.kind = "AmbiguousDeviceMatch"
    /\ Cardinality(Range(error.devices)) >= 2

\* C3: when discovery is enabled and returns exactly one device, the session
\* is opened with that device's prefix, unchanged.
C3_DiscoveredAddressUsed ==
    (~args.no_discover /\ createCalls > 0) =>
        /\ Len(matched) = 1
        /\ prefix = matched[1]
        /\ SessionOpened => interface.prefix = matched[1]

C3_Witness ==
    /\ ~args.no_discover
    /\ SessionOpened
    /\ Len(matched) = 1
    /\ interface.prefix = matched[1]
    /\ interface.prefix # args.prefix

\* C4: when discovery is skipped, no discovery call is made, and the session
\* is opened with the caller's prefix, unchanged.
C4_NoDiscoverNoCall ==
    args.no_discover =>
        /\ discoverCalls = 0
        /\ pc # "Resolving"
        /\ matched = None
        /\ createCalls > 0 => prefix = args.prefix
        /\ SessionOpened => interface.prefix = args.prefix

C4_Witness ==
    /\ args.no_discover
    /\ pc = "Acked"
    /\ discoverCalls = 0
    /\ interface.prefix = args.prefix

\* C5: an invocation opens at most one session and issues at most one write,
\* whatever its outcome; an acknowledged one has issued exactly one write, and
\* one whose session failed to open has issued none.
C5_AtMostOneWrite ==
    /\ createCalls <= 1
    /\ Len(writes) <= 1
    /\ pc = "Acked" => (createCalls = 1 /\ Len(writes) = 1)
    /\ error.kind \in {"WriteRejected", "Timeout"} =>
            (createCalls = 1 /\ Len(writes) = 1 /\ pc = "Failed")
    /\ error.kind \in {"ConnectionFailed", "NoDeviceFound",
                       "AmbiguousDeviceMatch"} =>
            (Len(writes) = 0 /\ pc = "Failed")

C5_Witness ==
    /\ pc = "Failed"
    /\ error.kind = "Timeout"
    /\ Len(writes) = 1
    /\ createCalls = 1

\* C6: a write of the invocation goes to the path pid_ch/<channel> of the
\* given channel on the resolved device, and no step of the invocation changes
\* another channel's parameter set, or any path of another device.
C6_OnlyGivenChannel ==
    [][ /\ writes' # writes =>
            /\ Len(writes') = Len(writes) + 1
            /\ writes'[Len(writes')].path =
                    [node |-> "pid_ch", channel |-> args.channel]
            /\ writes'[Len(writes')].prefix = prefix
            /\ args.channel \in {0, 1}
        /\ \A a \in Addresses : \A path \in DevicePaths :
            device'[a][path] # device[a][path] =>
                (a = prefix /\ path.node = "pid_ch"
                            /\ path.channel = args.channel)
      ]_vars

C6_Witness ==
    /\ pc = "Acked"
    /\ prefix \in Addresses
    /\ device[prefix][[node |-> "pid_ch", channel |-> args.channel]] # None
    /\ device[prefix][[node |-> "pid_ch", channel |-> 1 - args.channel]] = None

\* C7: the written record has exactly the fields p, i, d, x_offset, y_offset,
\* y_min, y_max, i_limit; p, i, d are the inputs, and each of the five others
\* is its own input times MachineRange / FullScaleVoltage, rounded to nearest,
\* whatever the inputs are (y_min above y_max included).
C7_RecordConverted ==
    \A k \in 1..Len(writes) :
        LET v == writes[k].value IN
        /\ DOMAIN v = {"p", "i", "d", "x_offset", "y_offset", "y_min",
                       "y_max", "i_limit"}
        /\ v.p = args.p
        /\ v.i = args.i
        /\ v.d = args.d
        /\ Nearest(v.x_offset, args.x_offset)
        /\ Nearest(v.y_offset, args.y_offset)
        /\ Nearest(v.y_min, args.y_min)
        /\ Nearest(v.y_max, args.y_max)
        /\ Nearest(v.i_limit, args.i_limit)

C7_Witness ==
    /\ Len(writes) = 1
    /\ args.y_min > args.y_max
    /\ writes[1].value.y_min > writes[1].value.y_max
    /\ writes[1].value.x_offset = 9830
    /\ writes[1].value.p = 2

\* C8, as stated: whenever a session has been opened, with discovery enabled
\* or skipped, its prefix is concrete (wildcard-free).
C8_AlwaysConcrete ==
    SessionOpened => IsConcrete(interface.prefix)

\* C8, amended: with discovery enabled, the prefix the session is opened with
\* is concrete and is the one device discovery returned; with discovery
\* skipped, it is the caller's prefix, concrete only if the caller's is.
C8_ConcreteWhenDiscovered ==
    SessionOpened =>
        /\ ~args.no_discover =>
                /\ IsConcrete(interface.prefix)
                /\ interface.prefix \in Addresses
                /\ matched = <<interface.prefix>>
        /\ args.no_discover =>
                /\ interface.prefix = args.prefix
                /\ IsConcrete(interface.prefix) <=> IsConcrete(args.prefix)

C8_Witness ==
    /\ SessionOpened
    /\ args.no_discover
    /\ ~IsConcrete(interface.prefix)
    /\ Len(writes) = 1

\* The steps in the order the specification gives them, conversion before
\* the session; discovery is passed over with --no-discover, and any step
\* that can fail may end the invocation.
SpecOrder ==
    {<<"Idle", "Resolving">>, <<"Idle", "Resolved">>,
     <<"Resolving", "Resolved">>, <<"Resolved", "Converting">>,
     <<"Converting", "SessionOpen">>, <<"SessionOpen", "Writing">>,
     <<"Writing", "Acked">>}
    \cup {<<from, "Failed">> : from \in {"Resolving", "Resolved",
                                         "Converting", "SessionOpen",
                                         "Writing"}}

\* The steps in the order the code takes them, conversion after the session.
CodeOrder ==
    {<<"Idle", "Resolving">>, <<"Idle", "Resolved">>,
     <<"Resolving", "Resolved">>, <<"Resolved", "SessionOpen">>,
     <<"SessionOpen", "Converting">>, <<"Converting", "Writing">>,
     <<"Writing", "Acked">>}
    \cup {<<from, "Failed">> : from \in {"Resolving", "Resolved", "Writing"}}

\* What C9 says besides the order of the conversion: the session is opened
\* only after discovery, when enabled, has returned a single prefix; a write
\* is issued only with the session open and the record built; discovery and
\* the session or write are never in progress together.
StepsSequential ==
    /\ (pc = "Idle" /\ pc' = "Resolved") => args.no_discover
    /\ (pc = "Idle" /\ pc' = "Resolving") => ~args.no_discover
    /\ (~SessionOpened /\ SessionOpened') =>
            (~args.no_discover => (pc = "Resolved" /\ Len(matched) = 1))
    /\ writes' # writes =>
            (SessionOpened /\ value # None /\ writes'[Len(writes')].value = value[1])
    /\ pc' = "Resolving" => (~SessionOpened' /\ writes' = <<>> /\ createCalls' = 0)

C10_SessionReleased ==
    pc \in Terminal => ~SessionOpened

====
